---- MODULE Spec2Model ----
(***************************************************************************)
(* TuxTechCli GPG key manager (gpg_key_manager_core.py, GPG-KeyManager.py). *)
(* The program is a sequence of blocking operations over four external      *)
(* stores: the key tool's keyring, the Git configuration, the GitHub         *)
(* account and the Local Config Store file.  One action per operation; the  *)
(* answers of the key tool, Git, the file system, GitHub and the terminal   *)
(* are the inputs of each action.                                           *)
(***************************************************************************)
EXTENDS Integers, Sequences, FiniteSets, TLC

(* ------------------------------ bounds --------------------------------- *)
\* most secret keys the keyring holds
MaxKeys == 2

\* runs of the command line program in one behaviour
MaxRuns == 1

\* the largest --max-backups, the largest --max-size and the largest log
\* file (both in lines), and the start-ups of the logger in one behaviour
MaxBackups == 2

MaxLogSize == 1

MaxLines == 2

MaxStarts == 4

\* long key ids the key tool can hand out / the user can type
KeyIds == {"K1", "K2", "K3"}

\* a key id the user types that no key ever has
NoSuchKey == "K9"

Emails == {"jane@example.com"}

\* datetime.now().isoformat(): some non-empty text
NowIso == "2025-06-18T00:00:00"

(* --------------------------- Python values ----------------------------- *)
\* a dict is a function from its keys; {} is the function with no keys
EmptyDict == [k \in {} |-> ""]

DictGet(d, k, default) == IF k \in DOMAIN d THEN d[k] ELSE default

DictSet(d, k, v) == [x \in (DOMAIN d) \cup {k} |-> IF x = k THEN v ELSE d[x]]

\* str(True) / str(False) as stored in JSON
PyBool(b) == IF b THEN "true" ELSE "false"

(* --------------------------- Local Config Store ------------------------ *)
\* keys the program ever writes, in the order json.dump emits them here
ConfigKeyOrder ==
  << "gpg_installed", "key_configured", "git_configured", "gpg_key_id",
     "github_key_added", "github_configured", "last_config_update",
     "git_email", "key_creation_time" >>

\* the file: absent, or a text that is a JSON object (wf) or not;
\* members are the "key": value pairs of the object, in file order
AbsentFile == [present |-> FALSE, wf |-> FALSE, members |-> << >>]

MalformedFile == [present |-> TRUE, wf |-> FALSE, members |-> << >>]

RECURSIVE DumpMembers(_, _)
DumpMembers(d, i) ==
  IF i > Len(ConfigKeyOrder) THEN << >>
  ELSE IF ConfigKeyOrder[i] \in DOMAIN d
       THEN << << ConfigKeyOrder[i], d[ConfigKeyOrder[i]] >> >> \o DumpMembers(d, i + 1)
       ELSE DumpMembers(d, i + 1)

\* json.dump that writes only the members update_key_config knows
json_dump_fixed_keys(d) ==
  [present |-> TRUE, wf |-> TRUE,
   members |-> DumpMembers([k \in (DOMAIN d) \ {"gpg_key_id"} |-> d[k]], 1)]

\* json.dump(config, f, indent=2)
json_dump(d) == [present |-> TRUE, wf |-> TRUE, members |-> DumpMembers(d, 1)]

RECURSIVE ParseMembers(_, _)
ParseMembers(ms, d) ==
  IF ms = << >> THEN d
  ELSE ParseMembers(Tail(ms), DictSet(d, Head(ms)[1], Head(ms)[2]))

\* json.load(f): a later duplicate member replaces an earlier one
json_load(text) == ParseMembers(text.members, EmptyDict)

\* the try block of load_config: mkdir, {} for an absent file, json.load
\* otherwise.  fsOk = FALSE: the directory cannot be made or the file cannot
\* be opened (OSError); a malformed file makes json.load raise
\* JSONDecodeError
load_config_try(w, fsOk) ==
  IF ~fsOk THEN [w |-> w, ret |-> EmptyDict, exc |-> "OSError"]
  ELSE LET w1 == [w EXCEPT !.cfgDir = TRUE] IN
       IF ~w1.cfgFile.present THEN [w |-> w1, ret |-> EmptyDict, exc |-> ""]
       ELSE IF ~w1.cfgFile.wf
       THEN [w |-> w1, ret |-> EmptyDict, exc |-> "JSONDecodeError"]
       ELSE [w |-> w1, ret |-> json_load(w1.cfgFile), exc |-> ""]

\* load_config without its two except clauses
load_config_uncaught(w, fsOk) == load_config_try(w, fsOk)

\* load_config: JSONDecodeError and every other exception give {}
load_config(w, fsOk) ==
  LET r == load_config_try(w, fsOk) IN
  IF r.exc # "" THEN [w |-> r.w, ret |-> EmptyDict, exc |-> ""] ELSE r

\* save_config: mkdir, overwrite the file; any failure becomes RuntimeError
save_config(w, config, fsOk) ==
  IF ~fsOk THEN [w |-> w, exc |-> "RuntimeError"]
  ELSE [w |-> [w EXCEPT !.cfgDir = TRUE, !.cfgFile = json_dump(config)],
        exc |-> ""]

\* update_key_config: the record is built from scratch, then saved
update_key_config(w, key_id, git_configured, github_configured, fsOk) ==
  save_config(w,
    [k \in {"gpg_installed", "key_configured", "git_configured",
            "gpg_key_id", "github_key_added"} |->
       CASE k = "gpg_installed" -> "true"
         [] k = "key_configured" -> "true"
         [] k = "git_configured" -> PyBool(git_configured)
         [] k = "gpg_key_id" -> key_id
         [] OTHER -> PyBool(github_configured)],
    fsOk)

(* ------------------------------ Git ------------------------------------ *)
GitSettings == {"user.signingkey", "commit.gpgsign", "tag.gpgsign",
                "user.email", "user.name", "github.user"}

\* an external call the program made: the command and its main argument
Call(c, a) == [call |-> c, arg |-> a]

Range(q) == { q[i] : i \in 1..Len(q) }

\* an unset that does not reach the global file (--global left out)
git_unset_local(w, name) == w

\* git config --global --unset <name>; the exit code is not looked at
\* (5 when the setting was not set)
git_unset(w, name) == [w EXCEPT !.git[name] = ""]

\* git config --get <name>: exit 1 (CalledProcessError) when unset
git_get_ok(w, name) == w.git[name] # ""

\* git config --global <name> <value>
git_set(w, name, value) == [w EXCEPT !.git[name] = value]

\* clear_config after its three unsets: delete the file and the directory,
\* then write the "unconfigured" record back.  unlinkOk / saveOk: whether
\* the file system lets the file be removed / written
clear_config_files(w1, calls1, unlinkOk, saveOk) ==
     IF w1.cfgDir /\ w1.cfgFile.present /\ ~unlinkOk
     THEN [w |-> w1, ret |-> "", exc |-> "RuntimeError", msg |-> "clear",
           calls |-> calls1 \o << Call("cfg:unlink", "") >>]
     ELSE LET w2 == IF w1.cfgDir
                    THEN [w1 EXCEPT !.cfgFile = AbsentFile, !.cfgDir = FALSE]
                    ELSE w1
              calls2 == IF w1.cfgDir /\ w1.cfgFile.present
                        THEN calls1 \o << Call("cfg:unlink", "") >>
                        ELSE calls1
              s == update_key_config(w2, "", FALSE, FALSE, saveOk)
          IN IF s.exc # ""
             THEN [w |-> s.w, ret |-> "", exc |-> "RuntimeError",
                   msg |-> "clear", calls |-> calls2 \o << Call("cfg:save", "") >>]
             ELSE [w |-> s.w, ret |-> "None", exc |-> "", msg |-> "",
                   calls |-> calls2 \o << Call("cfg:save", "") >>]

\* a clear_config that runs its three unsets with check=True: the unset of
\* a setting that is not set exits with 5 and ends the call
clear_config_checked(w, unlinkOk, saveOk) ==
  LET c1 == << Call("git:unset", "user.signingkey") >>
      c2 == c1 \o << Call("git:unset", "commit.gpgsign") >>
      c3 == c2 \o << Call("git:unset", "tag.gpgsign") >>
      w1 == git_unset(w, "user.signingkey")
      w2 == git_unset(w1, "commit.gpgsign")
      X(w0, calls) == [w |-> w0, ret |-> "", exc |-> "RuntimeError",
                       msg |-> "clear", calls |-> calls]
  IN IF ~git_get_ok(w, "user.signingkey") THEN X(w, c1)
     ELSE IF ~git_get_ok(w1, "commit.gpgsign") THEN X(w1, c2)
     ELSE IF ~git_get_ok(w2, "tag.gpgsign") THEN X(w2, c3)
     ELSE clear_config_files(git_unset(w2, "tag.gpgsign"), c3, unlinkOk,
                             saveOk)

\* clear_config: unset the three signing settings (the exit status of git
\* is not looked at), then the files
clear_config(w, unlinkOk, saveOk) ==
  clear_config_files(
    git_unset(git_unset(git_unset(w, "user.signingkey"),
                        "commit.gpgsign"), "tag.gpgsign"),
    << Call("git:unset", "user.signingkey"),
       Call("git:unset", "commit.gpgsign"),
       Call("git:unset", "tag.gpgsign") >>,
    unlinkOk, saveOk)

(* ------------------------------ key tool ------------------------------- *)
\* what the key tool knows about each key it can hold
KeyInfo ==
  [k \in KeyIds |->
     CASE k = "K1" -> [owner |-> "Jane Doe", fpr |-> "F1", sub |-> "S1",
                       created |-> "2025-01-01", armor |-> "PGP-K1"]
       [] k = "K2" -> [owner |-> "John Roe", fpr |-> "F2", sub |-> "S2",
                       created |-> "2025-02-02", armor |-> "PGP-K2"]
       [] OTHER    -> [owner |-> "Ann Poe", fpr |-> "F3", sub |-> "S3",
                       created |-> "2025-03-03", armor |-> "PGP-K3"]]

\* a line of `gpg --list-secret-keys --keyid-format=long`, as line.split()
\* sees it: tag is parts[0], p1 is parts[1] split at "/", p2 and p3 are
\* parts[2] and parts[3]; name is the text of a uid line after "]" and
\* before "<"
LongLine(tag, p1, p2, p3, name) ==
  [tag |-> tag, p1 |-> p1, p2 |-> p2, p3 |-> p3, name |-> name]

LongLinesOf(k) ==
  << LongLine("sec", << "rsa4096", k >>, KeyInfo[k].created, "[SC]", ""),
     LongLine("", << KeyInfo[k].fpr >>, "", "", ""),
     LongLine("uid", << "[ultimate]" >>, "", "", KeyInfo[k].owner),
     LongLine("ssb", << "rsa4096", KeyInfo[k].sub >>, KeyInfo[k].created, "[E]", ""),
     LongLine("", << >>, "", "", "") >>

RECURSIVE ListSecretKeysLong(_)
ListSecretKeysLong(ring) ==
  IF ring = << >> THEN << >>
  ELSE LongLinesOf(Head(ring)) \o ListSecretKeysLong(Tail(ring))

\* a line of `gpg --list-secret-keys --with-colons`, as line.split(":")
\* sees it: f1 = parts[1], f4 = parts[4], f5 = parts[5], f6 = parts[6],
\* f9 = parts[9]
ColonLine(tag, f1, f4, f5, f6, f9) ==
  [tag |-> tag, f1 |-> f1, f4 |-> f4, f5 |-> f5, f6 |-> f6, f9 |-> f9]

ColonLinesOf(k) ==
  << ColonLine("sec", "u", k, KeyInfo[k].created, "", ""),
     ColonLine("fpr", "", "", "", "", KeyInfo[k].fpr),
     ColonLine("uid", "u", "", KeyInfo[k].created, "", KeyInfo[k].owner),
     ColonLine("ssb", "u", KeyInfo[k].sub, KeyInfo[k].created, "", "") >>

RECURSIVE ListSecretKeysColons(_)
ListSecretKeysColons(ring) ==
  IF ring = << >> THEN << >>
  ELSE ColonLinesOf(Head(ring)) \o ListSecretKeysColons(Tail(ring))

InRing(ring, k) == \E i \in 1..Len(ring) : ring[i] = k

\* get_gpg_key_id: the id on the first "sec" line, None when there is none
\* or when the listing exits non-zero
RECURSIVE FirstSecLong(_)
FirstSecLong(lines) ==
  IF lines = << >> THEN "None"
  ELSE IF Head(lines).tag = "sec" /\ Len(Head(lines).p1) > 0
       THEN Head(lines).p1[Len(Head(lines).p1)]
       ELSE FirstSecLong(Tail(lines))

get_gpg_key_id(w, listOk) ==
  IF ~listOk THEN "None" ELSE FirstSecLong(ListSecretKeysLong(w.keyring))

\* the loop of get_gpg_key_details over the listing lines
RECURSIVE DetailsLoop(_, _, _, _)
DetailsLoop(lines, key_id, details, key_found) ==
  IF lines = << >> THEN details
  ELSE LET line == Head(lines) IN
       IF line.tag = "sec"
       THEN IF key_id = line.p1[Len(line.p1)]
            THEN DetailsLoop(Tail(lines), key_id,
                   DictSet(DictSet(DictSet(DictSet(details,
                     "primary_key", line.p1[Len(line.p1)]),
                     "primary_type", line.p1[1]),
                     "primary_size", line.p2),
                     "primary_created", line.p3),
                   TRUE)
            ELSE DetailsLoop(Tail(lines), key_id, details, key_found)
       ELSE IF key_found /\ line.tag = "uid"
       THEN DetailsLoop(Tail(lines), key_id,
                        DictSet(details, "owner", line.name), key_found)
       ELSE IF key_found /\ line.tag = "ssb"
       THEN DetailsLoop(Tail(lines), key_id,
                   DictSet(DictSet(DictSet(details,
                     "subkey_type", line.p1[1]),
                     "subkey_size", line.p2),
                     "subkey_created", line.p3),
                   key_found)
       ELSE DetailsLoop(Tail(lines), key_id, details, key_found)

\* get_gpg_key_details without its except clause
get_gpg_key_details_uncaught(w, key_id, listOk) ==
  IF ~listOk
  THEN [ret |-> "", exc |-> "CalledProcessError", msg |-> "stderr",
        out |-> EmptyDict,
        calls |-> << Call("gpg:list-secret-keys", "long") >>]
  ELSE [ret |-> "dict", exc |-> "", msg |-> "",
        out |-> DetailsLoop(ListSecretKeysLong(w.keyring), key_id,
                            EmptyDict, FALSE),
        calls |-> << Call("gpg:list-secret-keys", "long") >>]

\* get_gpg_key_details: {} when the listing exits non-zero
get_gpg_key_details(w, key_id, listOk) ==
  IF ~listOk
  THEN [ret |-> "dict", exc |-> "", msg |-> "", out |-> EmptyDict,
        calls |-> << Call("gpg:list-secret-keys", "long") >>]
  ELSE [ret |-> "dict", exc |-> "", msg |-> "",
        out |-> DetailsLoop(ListSecretKeysLong(w.keyring), key_id,
                            EmptyDict, FALSE),
        calls |-> << Call("gpg:list-secret-keys", "long") >>]

\* the loop of list_gpg_keys: a record per "sec" line, its uid attached
RECURSIVE ListLoop(_, _, _)
ListLoop(lines, keys, current_key) ==
  IF lines = << >>
  THEN IF current_key = << >> THEN keys ELSE keys \o current_key
  ELSE LET line == Head(lines) IN
       IF line.tag = "sec"
       THEN ListLoop(Tail(lines), keys \o current_key,
                     << [type |-> "secret", key_id |-> line.f4,
                         created |-> line.f5, expires |-> line.f6,
                         uid |-> "", status |-> ""] >>)
       ELSE IF line.tag = "uid" /\ current_key # << >>
       THEN ListLoop(Tail(lines), keys,
                     << [current_key[1] EXCEPT !.uid = line.f9,
                                               !.status = line.f1] >>)
       ELSE ListLoop(Tail(lines), keys, current_key)

\* list_gpg_keys: parses and prints the keys; every path that does not
\* raise ends without a return value.  A listing that exits non-zero is
\* re-raised.
list_gpg_keys(w, listOk) ==
  IF ~listOk
  THEN [ret |-> "", exc |-> "CalledProcessError", msg |-> "stderr",
        seq |-> << >>, printed |-> << >>,
        calls |-> << Call("gpg:list-secret-keys", "colons") >>]
  ELSE LET keys == ListLoop(ListSecretKeysColons(w.keyring), << >>, << >>) IN
       [ret |-> "None", exc |-> "", msg |-> "", seq |-> << >>,
        printed |-> keys,
        calls |-> << Call("gpg:list-secret-keys", "colons") >>
                  \o [i \in 1..Len(keys) |-> Call("git:get", "user.signingkey")]]

\* a configure_git that puts the old signing key back when enabling commit
\* signing failed
configure_git_rollback(w, key_id, setKeyOk, setSignOk) ==
  IF setKeyOk /\ setSignOk
  THEN [w |-> git_set(git_set(w, "user.signingkey", key_id),
                      "commit.gpgsign", "true"),
        ret |-> "True",
        calls |-> << Call("git:set:user.signingkey", key_id),
                     Call("git:set:commit.gpgsign", "true") >>]
  ELSE [w |-> w, ret |-> "False",
        calls |-> << Call("git:set:user.signingkey", key_id) >>]

\* configure_git: set user.signingkey, then commit.gpgsign; a step that
\* exits non-zero ends the call with False and nothing is rolled back
configure_git(w, key_id, setKeyOk, setSignOk) ==
  IF ~setKeyOk
  THEN [w |-> w, ret |-> "False",
        calls |-> << Call("git:set:user.signingkey", key_id) >>]
  ELSE LET w1 == git_set(w, "user.signingkey", key_id) IN
       IF ~setSignOk
       THEN [w |-> w1, ret |-> "False",
             calls |-> << Call("git:set:user.signingkey", key_id),
                          Call("git:set:commit.gpgsign", "true") >>]
       ELSE [w |-> git_set(w1, "commit.gpgsign", "true"), ret |-> "True",
             calls |-> << Call("git:set:user.signingkey", key_id),
                          Call("git:set:commit.gpgsign", "true") >>]

\* `gpg --list-keys --with-colons <key_id>`: the lines of the key asked for
ListKeysColons(w, key_id) ==
  IF key_id \in KeyIds /\ InRing(w.keyring, key_id)
  THEN ColonLinesOf(key_id) ELSE << >>

RECURSIVE FirstFpr(_)
FirstFpr(lines) ==
  IF lines = << >> THEN ""
  ELSE IF Head(lines).tag = "fpr" THEN Head(lines).f9
       ELSE FirstFpr(Tail(lines))

RemoveKey(ring, k) == SelectSeq(ring, LAMBDA x : x # k)

KeyOfFpr(fpr) == CHOOSE k \in KeyIds : KeyInfo[k].fpr = fpr

\* delete_gpg_key with the delete command run without check=True: its exit
\* status is not seen
delete_gpg_key_unchecked(w, key_id, lookupOk, deleteOk, unlinkOk, saveOk) ==
  LET c1 == << Call("gpg:list-keys", key_id) >>
      fingerprint == FirstFpr(ListKeysColons(w, key_id))
  IN IF ~lookupOk \/ fingerprint = ""
     THEN [w |-> w, ret |-> "", exc |-> "RuntimeError", msg |-> "stderr",
           calls |-> c1]
     ELSE LET w1 == IF deleteOk
                    THEN [w EXCEPT !.keyring =
                            RemoveKey(w.keyring, KeyOfFpr(fingerprint))]
                    ELSE w
              r == clear_config(git_unset(w1, "user.signingkey"),
                                unlinkOk, saveOk)
          IN [w |-> r.w, ret |-> IF r.exc = "" THEN "True" ELSE "",
              exc |-> r.exc, msg |-> r.msg,
              calls |-> c1 \o << Call("gpg:delete-secret-and-public-key",
                                      fingerprint),
                                 Call("git:unset", "user.signingkey") >>
                          \o r.calls]

\* delete_gpg_key.  lookupOk / deleteOk: the exit status of the two key
\* tool commands; every exception leaves as RuntimeError, its message made
\* of the tool's stderr or of the inner exception's text
delete_gpg_key(w, key_id, lookupOk, deleteOk, unlinkOk, saveOk) ==
  LET c1 == << Call("gpg:list-keys", key_id) >> IN
  IF ~lookupOk
  THEN [w |-> w, ret |-> "", exc |-> "RuntimeError", msg |-> "stderr",
        calls |-> c1]
  ELSE LET fingerprint == FirstFpr(ListKeysColons(w, key_id)) IN
       IF fingerprint = ""
       THEN [w |-> w, ret |-> "", exc |-> "RuntimeError",
             msg |-> "Could not find fingerprint", calls |-> c1]
       ELSE LET c2 == c1 \o << Call("gpg:delete-secret-and-public-key",
                                    fingerprint) >> IN
            IF ~deleteOk
            THEN [w |-> w, ret |-> "", exc |-> "RuntimeError",
                  msg |-> "stderr", calls |-> c2]
            ELSE LET w1 == [w EXCEPT !.keyring =
                                 RemoveKey(w.keyring, KeyOfFpr(fingerprint))]
                     w2 == git_unset(git_unset(git_unset(w1,
                             "user.signingkey"), "user.email"), "user.name")
                     c3 == c2 \o << Call("git:unset", "user.signingkey"),
                                    Call("git:unset", "user.email"),
                                    Call("git:unset", "user.name") >>
                     r == clear_config(w2, unlinkOk, saveOk)
                 IN IF r.exc # ""
                    THEN [w |-> r.w, ret |-> "", exc |-> "RuntimeError",
                          msg |-> "clear", calls |-> c3 \o r.calls]
                    ELSE [w |-> r.w, ret |-> "True", exc |-> "", msg |-> "",
                          calls |-> c3 \o r.calls]

\* the key tool stores the generated key; pos is where its listing shows it
InsertAt(ring, pos, k) ==
  SubSeq(ring, 1, pos - 1) \o << k >> \o SubSeq(ring, pos, Len(ring))

\* the scan of create_gpg_key for the new key id: parts[4] of the first
\* "sec:" line of the listing, None when there is no such line
RECURSIVE FirstSecColons(_)
FirstSecColons(lines) ==
  IF lines = << >> THEN "None"
  ELSE IF Head(lines).tag = "sec" THEN Head(lines).f4
       ELSE FirstSecColons(Tail(lines))

\* the key records the handler of `except Exception` in create_gpg_key
\* builds from the listing (one per "sec:" line)
HandlerKeys(lines) ==
  LET secs == SelectSeq(lines, LAMBDA l : l.tag = "sec") IN
  [i \in 1..Len(secs) |-> secs[i].f4]

\* create_gpg_key after the generation command: the listing, the scan for
\* the key id, configure_git and the update of the store.  w1 is the world
\* the generation left
create_gpg_key_listed(w1, email, newKey, listOk, setKeyOk, setSignOk, readOk, saveOk) ==
  LET c1 == << Call("gpg:gen-key", email) >>
      c2 == c1 \o << Call("gpg:list-secret-keys", "colons") >>
  IN
  IF ~listOk
  THEN [w |-> w1, ret |-> "None", exc |-> "", msg |-> "", seq |-> << >>,
        calls |-> c2, created |-> newKey]
  ELSE
  LET lines == ListSecretKeysColons(w1.keyring)
      key_id == FirstSecColons(lines)
  IN
  IF key_id = "None"
  THEN [w |-> w1, ret |-> "None", exc |-> "", msg |-> "", seq |-> << >>,
        calls |-> c2, created |-> newKey]
  ELSE
  LET g == configure_git(w1, key_id, setKeyOk, setSignOk)
      c3 == c2 \o g.calls
  IN
  IF g.ret # "True"
  THEN [w |-> g.w, ret |-> "None", exc |-> "", msg |-> "", seq |-> << >>,
        calls |-> c3, created |-> newKey]
  ELSE
  LET l == load_config(g.w, readOk)
      config == DictSet(DictSet(DictSet(DictSet(DictSet(l.ret,
                  "gpg_key_id", key_id),
                  "git_configured", "true"),
                  "git_email", email),
                  "last_config_update", NowIso),
                  "key_creation_time", NowIso)
      sv == save_config(l.w, config, saveOk)
      c4 == c3 \o << Call("cfg:load", ""), Call("cfg:save", "") >>
  IN
  IF sv.exc = ""
  THEN [w |-> sv.w, ret |-> key_id, exc |-> "", msg |-> "", seq |-> << >>,
        calls |-> c4, created |-> newKey]
  ELSE
  \* except Exception: the handler lists the keys, marks the one Git
  \* signs with, prints them and returns the list
  LET c5 == c4 \o << Call("git:get", "user.signingkey") >> IN
  IF ~git_get_ok(sv.w, "user.email")
  THEN [w |-> sv.w, ret |-> "", exc |-> "KeyError", msg |-> "git_email",
        seq |-> << >>, calls |-> c5 \o << Call("git:get", "user.email") >>,
        created |-> newKey]
  ELSE [w |-> sv.w, ret |-> "list", exc |-> "", msg |-> "",
        seq |-> HandlerKeys(lines),
        calls |-> c5 \o << Call("git:get", "user.email") >>,
        created |-> newKey]

\* the world the generation command leaves when it exits zero: the key
\* tool stores newKey at place pos of its listing; newKey = "" when it
\* stored no key
Generated(w, newKey, pos) ==
  IF newKey = "" THEN w
  ELSE [w EXCEPT !.keyring = InsertAt(w.keyring, pos, newKey)]

\* a create_gpg_key that runs the generation command without check=True:
\* its exit status is not seen
create_gpg_key_unchecked(w, email, genOk, newKey, pos, listOk, setKeyOk, setSignOk, readOk, saveOk) ==
  create_gpg_key_listed(IF genOk THEN Generated(w, newKey, pos) ELSE w,
                        email, newKey, listOk, setKeyOk, setSignOk, readOk,
                        saveOk)

\* create_gpg_key.  genOk / listOk: exit status of the generation and of
\* the listing that follows; newKey, pos: the id the tool gives the key and
\* its place in the listing
create_gpg_key(w, email, genOk, newKey, pos, listOk, setKeyOk, setSignOk, readOk, saveOk) ==
  IF ~genOk
  THEN [w |-> w, ret |-> "None", exc |-> "", msg |-> "", seq |-> << >>,
        calls |-> << Call("gpg:gen-key", email) >>, created |-> ""]
  ELSE create_gpg_key_listed(Generated(w, newKey, pos), email, newKey,
                             listOk, setKeyOk, setSignOk, readOk, saveOk)

\* `gpg --armor --export <key_id>`: empty output for a key it does not hold
Armor(w, key_id) ==
  IF key_id \in KeyIds /\ InRing(w.keyring, key_id)
  THEN KeyInfo[key_id].armor ELSE ""

\* the scan of `gpg --fingerprint <key_id>` for the line that starts with
\* "      Key fingerprint = ": only the legacy output format has it
HumanFingerprint(w, key_id, legacyFmt) ==
  IF legacyFmt /\ key_id \in KeyIds /\ InRing(w.keyring, key_id)
  THEN KeyInfo[key_id].fpr ELSE ""

\* verify_github_key: exports the key and reads its fingerprint; GitHub is
\* not asked, github_configured is False in every record it returns.
\* exportOk / fprOk: exit status of the two commands; decodeOk: the output
\* of the export can be decoded as text (text=True), otherwise
\* UnicodeDecodeError leaves the function
verify_github_key(w, key_id, exportOk, fprOk, legacyFmt, decodeOk) ==
  IF ~decodeOk
  THEN [exc |-> "UnicodeDecodeError", out |-> EmptyDict,
        calls |-> << Call("gpg:export", key_id) >>]
  ELSE IF ~exportOk
  THEN [exc |-> "", out |-> [k \in {"public_key", "fingerprint", "github_configured"} |->
                   IF k = "github_configured" THEN "false" ELSE ""],
        calls |-> << Call("gpg:export", key_id) >>]
  ELSE IF ~fprOk
  THEN [exc |-> "", out |-> [k \in {"public_key", "fingerprint", "github_configured"} |->
                   IF k = "github_configured" THEN "false" ELSE ""],
        calls |-> << Call("gpg:export", key_id),
                     Call("gpg:fingerprint", key_id) >>]
  ELSE [exc |-> "", out |-> [k \in {"public_key", "fingerprint", "github_configured"} |->
                   CASE k = "public_key" -> Armor(w, key_id)
                     [] k = "fingerprint" -> HumanFingerprint(w, key_id, legacyFmt)
                     [] OTHER -> "false"],
        calls |-> << Call("gpg:export", key_id),
                     Call("gpg:fingerprint", key_id) >>]

\* bool(d) of a dict
DictTruth(d) == DOMAIN d # {}

\* the record check_gpg_status returns from its outer `except Exception`
StatusOnError ==
  [k \in {"error", "gpg_installed", "key_configured", "git_configured",
          "github_configured", "github_key_added", "last_update"} |->
     CASE k = "error" -> "FileNotFoundError"
       [] k = "last_update" -> "None"
       [] OTHER -> "false"]

\* check_gpg_installed run without check=True: a non-zero exit is not seen
check_gpg_installed_unchecked(tool) ==
  IF tool = "missing" THEN "FileNotFoundError" ELSE "True"

\* check_gpg_installed.  tool: "ok", "broken" (gpg --version exits
\* non-zero) or "missing" (no gpg executable: subprocess.run raises
\* FileNotFoundError, which is not caught here)
check_gpg_installed(tool) ==
  CASE tool = "ok" -> "True"
    [] tool = "broken" -> "False"
    [] OTHER -> "FileNotFoundError"

\* the try block of check_gpg_status.  gitOk: the git executable can be
\* run (FileNotFoundError otherwise; a setting that is not set is the
\* CalledProcessError the block catches itself)
check_gpg_status_try(w, tool, idListOk, detListOk, gitOk, exportOk, fprOk, legacyFmt, decodeOk, readOk) ==
  LET c0 == << Call("gpg:version", "") >> IN
  IF check_gpg_installed(tool) = "FileNotFoundError"
  THEN [w |-> w, ret |-> "", exc |-> "FileNotFoundError", msg |-> "gpg",
        out |-> EmptyDict, details |-> EmptyDict, calls |-> c0]
  ELSE IF check_gpg_installed(tool) = "False"
  THEN [w |-> w, ret |-> "dict", exc |-> "", msg |-> "",
        out |-> [k \in {"gpg_installed"} |-> "false"],
        details |-> EmptyDict, calls |-> c0]
  ELSE
  LET key_id == get_gpg_key_id(w, idListOk)
      c1 == c0 \o << Call("gpg:list-secret-keys", "long") >>
      st0 == [k \in {"gpg_installed"} |-> "true"]
  IN
  IF key_id = "None"
  THEN [w |-> w, ret |-> "dict", exc |-> "", msg |-> "", out |-> st0,
        details |-> EmptyDict, calls |-> c1]
  ELSE
  LET d == get_gpg_key_details(w, key_id, detListOk)
      st1 == DictSet(st0, "key_configured", "true")
      c2 == c1 \o d.calls \o << Call("git:get", "user.signingkey") >>
  IN
  IF ~gitOk
  THEN [w |-> w, ret |-> "", exc |-> "FileNotFoundError", msg |-> "git",
        out |-> EmptyDict, details |-> EmptyDict, calls |-> c2]
  ELSE
  LET st2 == IF git_get_ok(w, "user.signingkey")
                /\ w.git["user.signingkey"] = key_id
             THEN DictSet(st1, "git_configured", "true") ELSE st1
      v == verify_github_key(w, key_id, exportOk, fprOk, legacyFmt, decodeOk)
      st3 == IF v.exc # ""
             THEN DictSet(DictSet(st2, "public_key", "{}"),
                          "github_configured", "false")
             ELSE DictSet(DictSet(st2, "public_key", v.out["public_key"]),
                          "github_configured", PyBool(DictTruth(v.out)))
      l == load_config(w, readOk)
      st4 == DictSet(DictSet(st3,
               "github_key_added", DictGet(l.ret, "github_key_added", "false")),
               "last_update", DictGet(l.ret, "last_config_update", "None"))
  IN [w |-> l.w, ret |-> "dict", exc |-> "", msg |-> "", out |-> st4,
      details |-> d.out,
      calls |-> c2 \o v.calls \o << Call("cfg:load", "") >>]

\* check_gpg_status without its outer `except Exception`
check_gpg_status_uncaught(w, tool, idListOk, detListOk, gitOk, exportOk, fprOk, legacyFmt, decodeOk, readOk) ==
  check_gpg_status_try(w, tool, idListOk, detListOk, gitOk, exportOk, fprOk,
                       legacyFmt, decodeOk, readOk)

\* check_gpg_status: whatever leaves the try block is turned into the
\* all-false record
check_gpg_status(w, tool, idListOk, detListOk, gitOk, exportOk, fprOk, legacyFmt, decodeOk, readOk) ==
  LET r == check_gpg_status_try(w, tool, idListOk, detListOk, gitOk, exportOk,
                                fprOk, legacyFmt, decodeOk, readOk)
  IN IF r.exc # ""
     THEN [r EXCEPT !.ret = "dict", !.exc = "", !.msg = "",
                    !.out = StatusOnError]
     ELSE r

(* ------------------------------ GitHub --------------------------------- *)
\* str.upper() on the fingerprints that occur
Upper(x) ==
  CASE x = "f1" -> "F1" [] x = "f2" -> "F2" [] x = "f3" -> "F3" [] OTHER -> x

\* the "fingerprint" member of a key object GitHub lists: in lower case
\* when the listing carries the member (hasFpr), missing otherwise, and
\* key.get('fingerprint', '') is then ''
HubFingerprint(k, hasFpr) ==
  IF ~hasFpr THEN ""
  ELSE CASE k = "K1" -> "f1" [] k = "K2" -> "f2" [] OTHER -> "f3"

\* any(key.get('fingerprint', '').upper() == fingerprint.upper() ...)
key_exists(listed, hasFpr, fingerprint) ==
  \E k \in listed : Upper(HubFingerprint(k, hasFpr)) = Upper(fingerprint)

\* a connect_to_github that sends the upload once more when it was refused
connect_to_github_retry(w, key_id, detListOk, exportOk, fprOk, legacyFmt, get1, hasFpr, post, get2) ==
  LET d == get_gpg_key_details(w, key_id, detListOk)
      R(w2, ret, calls) == [w |-> w2, ret |-> ret, exc |-> "", msg |-> "",
                            calls |-> calls]
      c1 == d.calls
      c2 == c1 \o << Call("gpg:export", key_id) >>
      c3 == c2 \o << Call("gpg:fingerprint", key_id) >>
      c4 == c3 \o << Call("prompt", "PAT"),
                     Call("http:GET", "/user/gpg_keys") >>
      c5 == c4 \o << Call("http:POST", "/user/gpg_keys") >>
      c6 == c5 \o << Call("sleep", "5"), Call("http:GET", "/user/gpg_keys") >>
      fingerprint == HumanFingerprint(w, key_id, legacyFmt)
  IN
  IF ~DictTruth(d.out) THEN R(w, "False", c1)
  ELSE IF ~exportOk THEN R(w, "False", c2)
  ELSE IF ~fprOk THEN R(w, "False", c3)
  ELSE IF get1 # "200" THEN R(w, "False", c4)
  ELSE IF key_exists(w.hub, hasFpr, fingerprint) THEN R(w, "True", c4)
  ELSE IF post # "201"
  THEN R(w, "False", c5 \o << Call("http:POST", "/user/gpg_keys") >>)
  ELSE
  LET w1 == [w EXCEPT !.hub = w.hub \cup {key_id}] IN
  IF get2 = "neterr" THEN R(w1, "False", c6)
  ELSE IF key_exists(IF get2 = "seen" THEN w1.hub ELSE w.hub,
                     hasFpr, fingerprint)
  THEN R(w1, "True", c6)
  ELSE R(w1, "False", c6)

\* connect_to_github (the flow of -cg).  get1 / post / get2: what GitHub
\* answers to the listing, the upload and the listing after the upload
\* ("neterr": requests.RequestException; for get2 "seen" / "unseen": whether
\* the listing already shows the uploaded key)
connect_to_github(w, key_id, detListOk, exportOk, fprOk, legacyFmt, get1, hasFpr, post, get2) ==
  LET d == get_gpg_key_details(w, key_id, detListOk)
      R(w2, ret, calls) == [w |-> w2, ret |-> ret, exc |-> "", msg |-> "",
                            calls |-> calls]
      c1 == d.calls
      c2 == c1 \o << Call("gpg:export", key_id) >>
      c3 == c2 \o << Call("gpg:fingerprint", key_id) >>
      c4 == c3 \o << Call("prompt", "PAT"),
                     Call("http:GET", "/user/gpg_keys") >>
      c5 == c4 \o << Call("http:POST", "/user/gpg_keys") >>
      c6 == c5 \o << Call("sleep", "5"), Call("http:GET", "/user/gpg_keys") >>
      public_key == Armor(w, key_id)
      fingerprint == HumanFingerprint(w, key_id, legacyFmt)
  IN
  IF ~DictTruth(d.out) THEN R(w, "False", c1)
  ELSE IF ~exportOk THEN R(w, "False", c2)
  ELSE IF ~fprOk THEN R(w, "False", c3)
  ELSE IF get1 # "200" THEN R(w, "False", c4)
  ELSE IF key_exists(w.hub, hasFpr, fingerprint) THEN R(w, "True", c4)
  ELSE IF post # "201" THEN R(w, "False", c5)
  ELSE
  LET w1 == [w EXCEPT !.hub = w.hub \cup {key_id}] IN
  IF get2 = "neterr" THEN R(w1, "False", c6)
  ELSE IF key_exists(IF get2 = "seen" THEN w1.hub ELSE w.hub,
                     hasFpr, fingerprint)
  THEN R(w1, "True", c6)
  ELSE R(w1, "False", c6)

\* seconds the yes/no prompt of connect_github waits (signal.alarm)
PromptTimeout == 30

\* a prompt whose timeout counts as consent
confirm_timeout_as_yes(answer) == IF answer = "timeout" THEN "y" ELSE answer

\* the yes/no prompt under the alarm: the text typed, or TimeoutError when
\* the alarm fires first
confirm(answer) == IF answer = "timeout" THEN "TimeoutError" ELSE answer

\* the github_key_added update of connect_github: load, set, save
MarkGithubAdded(w, readOk, saveOk) ==
  LET l == load_config(w, readOk) IN
  save_config(l.w,
    DictSet(DictSet(DictSet(l.ret, "github_key_added", "true"),
                    "github_configured", "true"),
            "last_config_update", NowIso),
    saveOk)

\* connect_github (the interactive flow with the confirmation prompt).
\* token / username: whether the user typed one; answer: "y", "n",
\* "other", or "timeout" when the alarm fires first; get / post: GitHub's
\* answers ("neterr": the request raised)
connect_github(w, token, idListOk, fprOk, username, exportOk, answer, get, post, readOk, saveOk) ==
  LET R(w2, ret, calls) == [w |-> w2, ret |-> ret, exc |-> "", msg |-> "",
                            calls |-> calls]
      X(w2, msg, calls) == [w |-> w2, ret |-> "", exc |-> "RuntimeError",
                            msg |-> msg, calls |-> calls]
      c0 == << Call("prompt", "PAT") >>
      key_id == get_gpg_key_id(w, idListOk)
      c1 == c0 \o << Call("gpg:list-secret-keys", "long") >>
      c2 == c1 \o << Call("gpg:fingerprint", key_id) >>
      c3 == c2 \o << Call("git:get", "github.user") >>
      fromGit == IF git_get_ok(w, "github.user") THEN w.git["github.user"]
                 ELSE w.git["user.name"]
      c4 == IF git_get_ok(w, "github.user") THEN c3
            ELSE c3 \o << Call("git:get", "user.name") >>
      c5 == IF fromGit = "" THEN c4 \o << Call("prompt", "username") >> ELSE c4
      c6 == c5 \o << Call("gpg:export", key_id) >>
      c7 == c6 \o << Call("sleep", "5"), Call("prompt", "verify") >>
      c8 == c7 \o << Call("http:GET", "/users/gpg_keys") >>
      c9 == c8 \o << Call("http:POST", "/user/gpg_keys") >>
  IN
  IF ~token THEN R(w, "False", c0)
  ELSE IF key_id = "None" THEN R(w, "False", c1)
  ELSE IF ~fprOk THEN X(w, "stderr", c2)
  ELSE IF fromGit = "" /\ ~username THEN R(w, "False", c5)
  ELSE IF ~exportOk THEN R(w, "False", c6)
  ELSE IF confirm(answer) = "TimeoutError" THEN R(w, "False", c7)
  ELSE IF confirm(answer) # "y" THEN R(w, "False", c7)
  ELSE IF get = "neterr" THEN X(w, "request", c8)
  ELSE IF get = "200" /\ key_id \in w.hub
  THEN LET sv == MarkGithubAdded(w, readOk, saveOk)
           c == c8 \o << Call("cfg:load", ""), Call("cfg:save", "") >>
       IN IF sv.exc # "" THEN X(sv.w, "save", c) ELSE R(sv.w, "True", c)
  ELSE IF post = "neterr" THEN X(w, "request", c9)
  ELSE IF post # "201" THEN R(w, "False", c9)
  ELSE LET w1 == [w EXCEPT !.hub = w.hub \cup {key_id}]
           sv == MarkGithubAdded(w1, readOk, saveOk)
           c == c9 \o << Call("cfg:load", ""), Call("cfg:save", "") >>
       IN IF sv.exc # "" THEN X(sv.w, "save", c) ELSE R(sv.w, "True", c)

(* ------------------------------ main ----------------------------------- *)
\* what a branch of main's dispatch leaves: the value the manager returned
\* (ret), the exception that left the branch (exc) and code, the argument
\* of a sys.exit inside the branch ("" when it falls through to sys.exit(0))
Branch(w, ret, exc, code, calls) ==
  [w |-> w, ret |-> ret, exc |-> exc, code |-> code, calls |-> calls]

\* the selection of the key for --git-config and --connect-github: the
\* --key-id option, or the list of keys and a prompt when it is not given
select_key(w, key_id, typed, listOk) ==
  IF key_id # "" THEN [key |-> key_id, exc |-> "", calls |-> << >>]
  ELSE LET l == list_gpg_keys(w, listOk) IN
       IF l.exc # "" THEN [key |-> "", exc |-> l.exc, calls |-> l.calls]
       ELSE [key |-> typed, exc |-> "",
             calls |-> l.calls \o << Call("prompt", "key id") >>]

\* --create-key
main_create_key(r) == Branch(r.w, r.ret, r.exc, "", r.calls)

\* --list-keys
main_list_keys(w, listOk) ==
  LET r == list_gpg_keys(w, listOk) IN Branch(w, r.ret, r.exc, "", r.calls)

\* --delete-key: sys.exit(1) without --key-id
main_delete_key(w, key_id, r) ==
  IF key_id = "" THEN Branch(w, "", "", "1", << >>)
  ELSE Branch(r.w, r.ret, r.exc, "", r.calls)

\* --git-config: configure_git, and the status is printed when it succeeded
main_git_config(w, key_id, typed, listOk, setKeyOk, setSignOk, tool2, idListOk, detListOk, gitOk, exportOk, fprOk, decodeOk, readOk) ==
  LET k == select_key(w, key_id, typed, listOk) IN
  IF k.exc # "" THEN Branch(w, "", k.exc, "", k.calls)
  ELSE IF k.key = "" THEN Branch(w, "", "", "1", k.calls)
  ELSE LET g == configure_git(w, k.key, setKeyOk, setSignOk) IN
       IF g.ret # "True" THEN Branch(g.w, g.ret, "", "", k.calls \o g.calls)
       ELSE LET st == check_gpg_status(g.w, tool2, idListOk, detListOk, gitOk,
                                       exportOk, fprOk, TRUE, decodeOk, readOk)
            IN Branch(st.w, g.ret, "", "", k.calls \o g.calls \o st.calls)

\* --status-check
main_status_check(r) == Branch(r.w, r.ret, "", "", r.calls)

\* --connect-github
main_connect_github(w, key_id, typed, listOk, r) ==
  LET k == select_key(w, key_id, typed, listOk) IN
  IF k.exc # "" THEN Branch(w, "", k.exc, "", k.calls)
  ELSE IF k.key = "" THEN Branch(w, "", "", "1", k.calls)
  ELSE Branch(r.w, r.ret, r.exc, "", k.calls \o r.calls)

\* --clear-config
main_clear_config(r) == Branch(r.w, r.ret, r.exc, "", r.calls)

\* no command: parser.print_help(); sys.exit(1)
main_no_command(w) == Branch(w, "", "", "1", << >>)

\* --verbose-help: the help text and sys.exit(0), before the manager is made
main_verbose_help(w) ==
  [w |-> w, ret |-> "", exc |-> "", exit |-> "0", calls |-> << >>]

\* a main that dispatches without looking at the key tool first
main_without_check(w, tool, branch) ==
  [w |-> branch.w, ret |-> branch.ret, exc |-> branch.exc,
   exit |-> IF branch.exc # "" \/ branch.code = "1" THEN "1" ELSE "0",
   calls |-> branch.calls]

\* main after the parsing of the arguments: the check of the key tool,
\* the branch of the selected command, sys.exit(0); `except Exception`
\* prints the error and exits with 1
main(w, tool, branch) ==
  LET c0 == << Call("gpg:version", "") >> IN
  IF check_gpg_installed(tool) = "FileNotFoundError"
  THEN [w |-> w, ret |-> "", exc |-> "FileNotFoundError", exit |-> "1",
        calls |-> c0]
  ELSE IF check_gpg_installed(tool) = "False"
  THEN [w |-> w, ret |-> "", exc |-> "", exit |-> "1", calls |-> c0]
  ELSE [w |-> branch.w, ret |-> branch.ret, exc |-> branch.exc,
        exit |-> IF branch.exc # "" \/ branch.code = "1" THEN "1" ELSE "0",
        calls |-> c0 \o branch.calls]

(* ------------------------------ logger --------------------------------- *)
\* the numbered backups <stem>.<i>.log that can exist: 0 is absent, any
\* other number tells which start-up created the file
BackupSlots == 0..(MaxBackups + 1)

NoBackups == [i \in BackupSlots |-> 0]

\* the logger process and its files.  log: the log file, id 0 when it does
\* not exist, size in lines; handle: _log_handle; written: the levels of
\* the entries this process wrote; exit, cause: how the last process ended
IdleLogger(file, max_backups, max_log_size) ==
  [pc |-> "off", file |-> file, max_backups |-> max_backups,
   max_log_size |-> max_log_size, handle |-> "none",
   log |-> [id |-> 0, size |-> 0], bk |-> NoBackups, written |-> << >>,
   exit |-> "", cause |-> "", starts |-> 0, rotated |-> FALSE]

NoLogger == IdleLogger(FALSE, 0, 0)

\* _rotate_logs: unlink backup max_backups, rename backup i to i+1 for
\* i = max_backups-1 down to 1, rename the log file to backup 1
RECURSIVE RotateBackups(_, _)
RotateBackups(bk, i) ==
  IF i < 1 THEN bk
  ELSE RotateBackups(IF bk[i] # 0
                     THEN [bk EXCEPT ![i + 1] = bk[i], ![i] = 0]
                     ELSE bk,
                     i - 1)

_rotate_logs(l) ==
  IF ~l.file \/ l.log.id = 0 THEN l
  ELSE LET bk1 == [l.bk EXCEPT ![l.max_backups] = 0]
           bk2 == RotateBackups(bk1, l.max_backups - 1)
       IN [l EXCEPT !.bk = [bk2 EXCEPT ![1] = l.log.id],
                    !.log = [id |-> 0, size |-> 0],
                    !.rotated = TRUE]

\* _setup_logging: stderr without --log-file; otherwise rotate when the
\* file is larger than max_log_size, then open it for appending
_setup_logging(l) ==
  IF ~l.file THEN [l EXCEPT !.handle = "stderr"]
  ELSE LET l1 == IF l.log.id # 0 /\ l.log.size > l.max_log_size
                 THEN _rotate_logs(l) ELSE l
       IN [l1 EXCEPT !.handle = "open",
                     !.log = IF l1.log.id = 0
                             THEN [id |-> l.starts + 1, size |-> 0]
                             ELSE l1.log]

\* log: the entry goes to the log file when the handle is open
log(l, level) ==
  IF l.handle = "open"
  THEN [l EXCEPT !.log.size = l.log.size + 1,
                 !.written = Append(l.written, level)]
  ELSE IF l.handle = "stderr"
  THEN [l EXCEPT !.written = Append(l.written, level)]
  ELSE l

\* cleanup: the log file is closed, stderr is not
cleanup(l) ==
  IF l.handle = "open" THEN [l EXCEPT !.handle = "closed"] ELSE l

\* the process ends
exited(l, code, cause) ==
  [l EXCEPT !.pc = "off", !.exit = code, !.cause = cause]

\* signal_handler: cleanup and sys.exit(0); the SystemExit passes the except
\* clauses of main, whose finally runs cleanup once more
signal_handler(l, signum) == exited(cleanup(cleanup(l)), "0", signum)

(* ------------------------------ state ---------------------------------- *)
VARIABLES
  keyring,   \* secret keys in the key tool's listing order
  git,       \* global Git configuration, "" = unset
  cfgDir,    \* CONFIG_DIR exists
  cfgFile,   \* CONFIG_FILE
  hub,       \* key ids registered in the GitHub account
  last,      \* the operation just run: its arguments, result and calls
  runs,      \* how often the command line program has been run
  logger     \* the streaming-log utility and its files

vars == << keyring, git, cfgDir, cfgFile, hub, last, runs, logger >>

World == [keyring |-> keyring, git |-> git, cfgDir |-> cfgDir,
          cfgFile |-> cfgFile, hub |-> hub]

SetWorld(w) ==
  /\ keyring' = w.keyring
  /\ git' = w.git
  /\ cfgDir' = w.cfgDir
  /\ cfgFile' = w.cfgFile
  /\ hub' = w.hub
  /\ runs' = runs
  /\ logger' = logger

\* a run of the command line program that leaves w
Ran(w) ==
  /\ runs < MaxRuns
  /\ keyring' = w.keyring
  /\ git' = w.git
  /\ cfgDir' = w.cfgDir
  /\ cfgFile' = w.cfgFile
  /\ hub' = w.hub
  /\ runs' = runs + 1
  /\ logger' = logger

\* what an operation leaves behind for the caller: the return value (ret;
\* out, seq or details hold a returned dict or list), the exception that
\* left it (exc, msg) and the external calls it made; and what the
\* environment answered: created (the key the key tool generated), present
\* (the key asked for was in the keyring), tool, listOk, answer, get, post,
\* sub (how the GitHub sub-check of the status ended), readOk, setKey
\* and setSign (the exit status of the two git commands of configure_git),
\* save (whether the write of the store went through, "" when there was
\* none); exit is the exit code of a run of main and key its --key-id;
\* fpr is the fingerprint connect_to_github read for the local key; lookup
\* and deleted are the exit status of the two key tool commands of
\* delete_gpg_key ("" for a command that was not run), gen that of the
\* generation command of create_gpg_key; fsOk tells that the file system
\* refused nothing clear_config asked of it, again that the clear_config
\* followed a clear_config that returned
NoOp ==
  [op |-> "init", arg |-> "", ret |-> "", exc |-> "", msg |-> "",
   calls |-> << >>, out |-> EmptyDict, seq |-> << >>, details |-> EmptyDict,
   created |-> "", present |-> "", tool |-> "", listOk |-> "",
   answer |-> "", get |-> "", post |-> "", sub |-> "", readOk |-> "",
   setKey |-> "", setSign |-> "", exit |-> "", save |-> "", key |-> "",
   fpr |-> "", lookup |-> "", deleted |-> "", gen |-> "", fsOk |-> "",
   again |-> ""]

Rec(op, arg, fields) == [op |-> op, arg |-> arg] @@ fields @@ NoOp

\* records a user may have left in the file before the program runs
InitRecords ==
  { EmptyDict,
    [k \in {"gpg_key_id", "github_key_added"} |->
       IF k = "gpg_key_id" THEN "K1" ELSE "true"] }

InitFiles ==
  { AbsentFile, MalformedFile } \cup { json_dump(d) : d \in InitRecords }
  \cup { [present |-> TRUE, wf |-> TRUE,
          members |-> << << "gpg_key_id", "K2" >>, << "gpg_key_id", "K1" >> >>] }

\* the state the program is started in: rings, files and hubs are the
\* keyrings, config files and GitHub accounts it may find
InitWith(rings, files, hubs, loggers) ==
  /\ keyring \in rings
  /\ git = [s \in GitSettings |->
              CASE s = "user.email" -> "jane@example.com"
                [] s = "user.name" -> "jane"
                [] s = "tag.gpgsign" -> "true"
                [] OTHER -> ""]
  /\ cfgFile \in files
  /\ cfgDir = cfgFile.present
  /\ hub \in hubs
  /\ last = NoOp
  /\ runs = 0
  /\ logger \in loggers

Init == InitWith({ << >>, << "K1" >> }, InitFiles, { {} }, { NoLogger })

\* a first run: no config file yet
InitFresh == InitWith({ << >>, << "K1" >> }, { AbsentFile }, { {} }, { NoLogger })

\* a keyring that already holds two keys, the older one listed first
InitTwoKeys ==
  InitWith({ << >>, << "K2", "K1" >> },
           { AbsentFile, json_dump([k \in {"github_key_added"} |-> "true"]) },
           { {} }, { NoLogger })

(* ----------------------------- operations ------------------------------ *)
\* key ids a caller may pass
ArgKeys == KeyIds \cup {NoSuchKey}

\* only what a failed step leaves undecided is chosen after it
After(ok) == IF ok THEN BOOLEAN ELSE {TRUE}

\* how the save_config call of an operation ended: "" when it made none
Saved(calls, saveOk) ==
  IF Call("cfg:save", "") \in Range(calls) THEN PyBool(saveOk) ELSE ""

\* -cc: manager.clear_config()
ClearConfig ==
  \E unlinkOk \in BOOLEAN : \E saveOk \in After(unlinkOk) :
    \E r \in { clear_config(World, unlinkOk, saveOk) } :
    /\ SetWorld(r.w)
    /\ last' = Rec("clear_config", "",
                   [ret |-> r.ret, exc |-> r.exc, msg |-> r.msg,
                    calls |-> r.calls, save |-> Saved(r.calls, saveOk),
                    again |-> PyBool(last.op = "clear_config"
                                     /\ last.exc = ""),
                    fsOk |-> PyBool(
                      /\ Call("cfg:unlink", "") \in Range(r.calls) => unlinkOk
                      /\ Call("cfg:save", "") \in Range(r.calls) => saveOk)])

\* config = manager.load_config()
LoadConfig ==
  \E readOk \in BOOLEAN :
    \E l \in { load_config(World, readOk) } :
    /\ SetWorld(l.w)
    /\ last' = Rec("load_config", "",
                   [ret |-> "dict", exc |-> l.exc, out |-> l.ret,
                    calls |-> << Call("cfg:load", "") >>,
                    readOk |-> PyBool(readOk)])

\* save_config(load_config()): the record loaded is handed back to the store
SaveLoaded ==
  \E readOk \in BOOLEAN, saveOk \in BOOLEAN :
    \E l \in { load_config(World, readOk) } :
    \E s \in { save_config(l.w, l.ret, saveOk) } :
       /\ SetWorld(s.w)
       /\ last' = Rec("save_load", "",
                      [ret |-> "None", exc |-> s.exc, out |-> l.ret,
                       calls |-> << Call("cfg:load", ""), Call("cfg:save", "") >>])

\* get_gpg_key_details(key_id), as check_gpg_status and connect_to_github
\* call it: main has checked before that the key tool is installed
KeyDetails ==
  \E key_id \in ArgKeys, listOk \in BOOLEAN :
    \E r \in { get_gpg_key_details(World, key_id, listOk) } :
    /\ UNCHANGED << keyring, git, cfgDir, cfgFile, hub, runs, logger >>
    /\ last' = Rec("get_gpg_key_details", key_id,
                   [ret |-> r.ret, exc |-> r.exc, msg |-> r.msg,
                    calls |-> r.calls, out |-> r.out,
                    listOk |-> PyBool(listOk),
                    present |-> PyBool(InRing(keyring, key_id))])

\* -lk: manager.list_gpg_keys()
ListKeys ==
  \E listOk \in BOOLEAN :
    \E r \in { list_gpg_keys(World, listOk) } :
    /\ UNCHANGED << keyring, git, cfgDir, cfgFile, hub, runs, logger >>
    /\ last' = Rec("list_gpg_keys", "",
                   [ret |-> r.ret, exc |-> r.exc, msg |-> r.msg,
                    calls |-> r.calls, seq |-> r.seq,
                    listOk |-> PyBool(listOk)])

\* -dk -k key_id: manager.delete_gpg_key(key_id).  The key tool's lookup of
\* a key it holds exits zero with the key's lines, or non-zero; for a key it
\* does not hold it exits non-zero, or zero with no lines
DeleteKey ==
  \E key_id \in ArgKeys, lookupOk \in BOOLEAN :
  \E deleteOk \in After(lookupOk /\ InRing(keyring, key_id)) :
  \E unlinkOk \in After(lookupOk /\ InRing(keyring, key_id) /\ deleteOk) :
  \E saveOk \in After(lookupOk /\ InRing(keyring, key_id) /\ deleteOk /\ unlinkOk) :
    \E r \in { delete_gpg_key(World, key_id, lookupOk, deleteOk, unlinkOk,
                              saveOk) } :
       /\ SetWorld(r.w)
       /\ last' = Rec("delete_gpg_key", key_id,
                      [ret |-> r.ret, exc |-> r.exc, msg |-> r.msg,
                       calls |-> r.calls, save |-> Saved(r.calls, saveOk),
                       lookup |-> PyBool(lookupOk),
                       deleted |-> IF lookupOk /\ InRing(keyring, key_id)
                                   THEN PyBool(deleteOk) ELSE "",
                       present |-> PyBool(InRing(keyring, key_id))])

\* -ck: manager.create_gpg_key(name, email, comment, expire)
CreateKey ==
  \E email \in Emails, genOk \in BOOLEAN :
  \E newKey \in (IF genOk
                 THEN (KeyIds \ {keyring[i] : i \in 1..Len(keyring)}) \cup {""}
                 ELSE {""}) :
  \E pos \in (IF newKey # "" THEN 1..(Len(keyring) + 1) ELSE {1}) :
  \E listOk \in After(genOk) : \E setKeyOk \in After(listOk) :
  \E setSignOk \in After(setKeyOk) : \E readOk \in After(setSignOk) :
  \E saveOk \in After(setSignOk) :
    /\ newKey # "" => Len(keyring) < MaxKeys
    /\ \E r \in { create_gpg_key(World, email, genOk, newKey, pos, listOk,
                                  setKeyOk, setSignOk, readOk, saveOk) } :
          /\ SetWorld(r.w)
          /\ last' = Rec("create_gpg_key", email,
                         [ret |-> r.ret, exc |-> r.exc, msg |-> r.msg,
                          calls |-> r.calls, seq |-> r.seq,
                          save |-> Saved(r.calls, saveOk),
                          gen |-> PyBool(genOk),
                          listOk |-> IF genOk THEN PyBool(listOk) ELSE "",
                          created |-> r.created])

\* -gc -k key_id: manager.configure_git(key_id)
ConfigureGit ==
  \E key_id \in ArgKeys, setKeyOk \in BOOLEAN : \E setSignOk \in After(setKeyOk) :
    \E r \in { configure_git(World, key_id, setKeyOk, setSignOk) } :
    /\ SetWorld(r.w)
    /\ last' = Rec("configure_git", key_id,
                   [ret |-> r.ret, calls |-> r.calls,
                    setKey |-> PyBool(setKeyOk),
                    setSign |-> IF setKeyOk THEN PyBool(setSignOk) ELSE ""])

\* -sc: manager.check_gpg_status()
StatusCheck ==
  \E tool \in {"ok", "broken", "missing"} :
  \E idListOk \in After(tool = "ok") :
  \E probes \in {tool = "ok" /\ idListOk /\ keyring # << >>} :
  \E detListOk \in After(probes) : \E gitOk \in After(probes) :
  \E decodeOk \in After(probes /\ gitOk) :
  \E exportOk \in After(probes /\ gitOk /\ decodeOk) :
  \E fprOk \in After(probes /\ gitOk /\ decodeOk /\ exportOk) :
  \E readOk \in After(probes /\ gitOk) :
    \E r \in { check_gpg_status(World, tool, idListOk, detListOk, gitOk,
               exportOk, fprOk, TRUE, decodeOk, readOk) } :
       /\ SetWorld(r.w)
       /\ last' = Rec("check_gpg_status", "",
                      [ret |-> r.ret, exc |-> r.exc, msg |-> r.msg,
                       calls |-> r.calls, out |-> r.out,
                       details |-> r.details, tool |-> tool,
                       listOk |-> PyBool(idListOk),
                       sub |-> CASE ~(probes /\ gitOk) -> ""
                                 [] ~decodeOk -> "raised"
                                 [] ~exportOk -> "export"
                                 [] ~fprOk -> "fingerprint"
                                 [] OTHER -> "ok"])

\* what GitHub answers to a request
GetAnswers == {"200", "401", "403", "neterr"}

PostAnswers == {"201", "403", "422", "neterr"}

Then(ok, S, d) == IF ok THEN S ELSE {d}

\* -cg -k key_id: manager.connect_to_github(key_id)
ConnectToGithub ==
  \E key_id \in ArgKeys :
  \E detListOk \in After(InRing(keyring, key_id)) :
  \E exportOk \in After(InRing(keyring, key_id) /\ detListOk) :
  \E fprOk \in After(InRing(keyring, key_id) /\ detListOk /\ exportOk) :
  \E asked \in {InRing(keyring, key_id) /\ detListOk /\ exportOk /\ fprOk} :
  \E legacyFmt \in After(asked) :
  \E get1 \in Then(asked, GetAnswers, "") :
  \E hasFpr \in After(get1 = "200") :
  \E post \in Then(get1 = "200", PostAnswers, "") :
  \E get2 \in Then(post = "201", {"seen", "unseen", "neterr"}, "") :
    \E r \in { connect_to_github(World, key_id, detListOk, exportOk, fprOk,
               legacyFmt, get1, hasFpr, post, get2) } :
       /\ SetWorld(r.w)
       /\ last' = Rec("connect_to_github", key_id,
                      [ret |-> r.ret, exc |-> r.exc, msg |-> r.msg,
                       calls |-> r.calls, get |-> get1,
                       fpr |-> IF asked
                               THEN HumanFingerprint(World, key_id, legacyFmt)
                               ELSE "",
                       post |-> IF Call("http:POST", "/user/gpg_keys")
                                   \in Range(r.calls)
                                THEN post ELSE ""])

\* manager.connect_github()
ConnectGithub ==
  \E token \in BOOLEAN :
  \E idListOk \in After(token) :
  \E fprOk \in After(token /\ idListOk /\ keyring # << >>) :
  \E username \in After(token /\ idListOk /\ keyring # << >> /\ fprOk
                        /\ git["github.user"] = "" /\ git["user.name"] = "") :
  \E exportOk \in After(token /\ idListOk /\ keyring # << >> /\ fprOk
                        /\ username) :
  \E asked \in {token /\ idListOk /\ keyring # << >> /\ fprOk /\ username
                /\ exportOk} :
  \E answer \in Then(asked, {"y", "n", "x", "timeout"}, "") :
  \E get \in Then(answer = "y", GetAnswers, "") :
  \E post \in Then(answer = "y" /\ get # "neterr"
                   /\ ~(get = "200" /\ keyring[1] \in hub), PostAnswers, "") :
  \E saves \in {answer = "y" /\ get # "neterr"
                /\ ((get = "200" /\ keyring[1] \in hub) \/ post = "201")} :
  \E readOk \in After(saves) : \E saveOk \in After(saves) :
    \E r \in { connect_github(World, token, idListOk, fprOk, username, exportOk,
               answer, get, post, readOk, saveOk) } :
       /\ SetWorld(r.w)
       /\ last' = Rec("connect_github", "",
                      [ret |-> r.ret, exc |-> r.exc, msg |-> r.msg,
                       calls |-> r.calls, answer |-> answer, get |-> get,
                       save |-> Saved(r.calls, saveOk), post |-> post])

\* the --key-id option ("" when it is not given) and what the user types
\* at the prompt for a key id
KeyOption == ArgKeys \cup {""}

Tools == {"ok", "broken", "missing"}

\* what a run of main leaves behind
MainRec(cmd, key_id, tool, m, fields) ==
  Rec("main", cmd, [key |-> key_id, tool |-> tool, ret |-> m.ret,
                    exc |-> m.exc, exit |-> m.exit, calls |-> m.calls]
                   @@ fields)

\* GPG-KeyManager.py -ck --name .. --email ..
MainCreateKey ==
  \E tool \in Tools, email \in Emails :
  \E genOk \in Then(tool = "ok", BOOLEAN, FALSE) :
  \E newKey \in (IF tool = "ok" /\ genOk
                 THEN KeyIds \ {keyring[i] : i \in 1..Len(keyring)}
                 ELSE {""}) :
  \E pos \in (IF tool = "ok" /\ genOk THEN 1..(Len(keyring) + 1) ELSE {1}) :
  \E listOk \in After(tool = "ok" /\ genOk) : \E setKeyOk \in After(listOk) :
  \E setSignOk \in After(setKeyOk) : \E readOk \in After(setSignOk) :
  \E saveOk \in After(setSignOk) :
    /\ (tool = "ok" /\ genOk) => Len(keyring) < MaxKeys
    /\ LET r == create_gpg_key(World, email, genOk, newKey, pos, listOk,
                               setKeyOk, setSignOk, readOk, saveOk)
           m == main(World, tool, main_create_key(r))
       IN /\ Ran(m.w)
          /\ last' = MainRec("create-key", "", tool, m,
               [created |-> IF tool = "ok" THEN r.created ELSE "",
                seq |-> IF tool = "ok" THEN r.seq ELSE << >>,
                save |-> Saved(m.calls, saveOk)])

\* GPG-KeyManager.py -lk
MainListKeys ==
  \E tool \in Tools : \E listOk \in After(tool = "ok") :
    LET m == main(World, tool, main_list_keys(World, listOk)) IN
    /\ Ran(m.w)
    /\ last' = MainRec("list-keys", "", tool, m, EmptyDict)

\* GPG-KeyManager.py -dk [-k key_id]
MainDeleteKey ==
  \E tool \in Tools, key_id \in KeyOption :
  \E lookupOk \in After(tool = "ok" /\ key_id # "") :
  \E held \in {tool = "ok" /\ lookupOk /\ InRing(keyring, key_id)} :
  \E deleteOk \in After(held) : \E unlinkOk \in After(held /\ deleteOk) :
  \E saveOk \in After(held /\ deleteOk /\ unlinkOk) :
    LET r == delete_gpg_key(World, key_id, lookupOk, deleteOk, unlinkOk, saveOk)
        m == main(World, tool, main_delete_key(World, key_id, r))
    IN /\ Ran(m.w)
       /\ last' = MainRec("delete-key", key_id, tool, m,
            [save |-> Saved(m.calls, saveOk)])

\* GPG-KeyManager.py -gc [-k key_id]
MainGitConfig ==
  \E tool \in Tools : \E key_id \in Then(tool = "ok", KeyOption, "K1") :
  \E listOk \in After(tool = "ok" /\ key_id = "") :
  \E typed \in Then(tool = "ok" /\ key_id = "" /\ listOk, KeyOption, "") :
  \E setKeyOk \in After(tool = "ok" /\ listOk /\ (key_id # "" \/ typed # "")) :
  \E setSignOk \in After(setKeyOk) :
  \E shown \in {tool = "ok" /\ listOk /\ (key_id # "" \/ typed # "")
                /\ setKeyOk /\ setSignOk} :
  \E tool2 \in Then(shown, Tools, "ok") :
  \E idListOk \in After(shown /\ tool2 = "ok") :
  \E probes \in {shown /\ tool2 = "ok" /\ idListOk /\ keyring # << >>} :
  \E detListOk \in After(probes) : \E gitOk \in After(probes) :
  \E decodeOk \in After(probes /\ gitOk) :
  \E exportOk \in After(probes /\ gitOk /\ decodeOk) :
  \E fprOk \in After(probes /\ gitOk /\ decodeOk /\ exportOk) :
  \E readOk \in After(probes /\ gitOk) :
    LET b == main_git_config(World, key_id, typed, listOk, setKeyOk,
                             setSignOk, tool2, idListOk, detListOk, gitOk,
                             exportOk, fprOk, decodeOk, readOk)
        m == main(World, tool, b)
    IN /\ Ran(m.w)
       /\ last' = MainRec("git-config", key_id, tool, m, EmptyDict)

\* GPG-KeyManager.py -sc
MainStatusCheck ==
  \E tool \in Tools : \E tool2 \in Then(tool = "ok", Tools, "ok") :
  \E idListOk \in After(tool = "ok" /\ tool2 = "ok") :
  \E probes \in {tool = "ok" /\ tool2 = "ok" /\ idListOk /\ keyring # << >>} :
  \E detListOk \in After(probes) : \E gitOk \in After(probes) :
  \E decodeOk \in After(probes /\ gitOk) :
  \E exportOk \in After(probes /\ gitOk /\ decodeOk) :
  \E fprOk \in After(probes /\ gitOk /\ decodeOk /\ exportOk) :
  \E readOk \in After(probes /\ gitOk) :
    LET r == check_gpg_status(World, tool2, idListOk, detListOk, gitOk,
                              exportOk, fprOk, TRUE, decodeOk, readOk)
        m == main(World, tool, main_status_check(r))
    IN /\ Ran(m.w)
       /\ last' = MainRec("status-check", "", tool, m, EmptyDict)

\* GPG-KeyManager.py -cg [-k key_id]
MainConnectGithub ==
  \E tool \in Tools : \E key_id \in Then(tool = "ok", KeyOption, "K1") :
  \E listOk \in After(tool = "ok" /\ key_id = "") :
  \E typed \in Then(tool = "ok" /\ key_id = "" /\ listOk, KeyOption, "") :
  \E key \in {IF key_id # "" THEN key_id ELSE typed} :
  \E held \in {tool = "ok" /\ listOk /\ InRing(keyring, key)} :
  \E detListOk \in After(held) : \E exportOk \in After(held /\ detListOk) :
  \E fprOk \in After(held /\ detListOk /\ exportOk) :
  \E asked \in {held /\ detListOk /\ exportOk /\ fprOk} :
  \E legacyFmt \in After(asked) :
  \E get1 \in Then(asked, GetAnswers, "") :
  \E hasFpr \in After(get1 = "200") :
  \E post \in Then(get1 = "200", PostAnswers, "") :
  \E get2 \in Then(post = "201", {"seen", "unseen", "neterr"}, "") :
    LET r == connect_to_github(World, key, detListOk, exportOk, fprOk,
                               legacyFmt, get1, hasFpr, post, get2)
        m == main(World, tool, main_connect_github(World, key_id, typed,
                                                   listOk, r))
    IN /\ Ran(m.w)
       /\ last' = MainRec("connect-github", key_id, tool, m, EmptyDict)

\* GPG-KeyManager.py -cc
MainClearConfig ==
  \E tool \in Tools : \E unlinkOk \in After(tool = "ok") :
  \E saveOk \in After(unlinkOk) :
    LET r == clear_config(World, unlinkOk, saveOk)
        m == main(World, tool, main_clear_config(r))
    IN /\ Ran(m.w)
       /\ last' = MainRec("clear-config", "", tool, m,
            [save |-> Saved(m.calls, saveOk)])

\* GPG-KeyManager.py -vh
MainVerboseHelp ==
  \E tool \in Tools :
    LET m == main_verbose_help(World) IN
    /\ Ran(m.w)
    /\ last' = MainRec("verbose-help", "", tool, m, EmptyDict)

\* GPG-KeyManager.py without a command
MainNoCommand ==
  \E tool \in Tools :
    LET m == main(World, tool, main_no_command(World)) IN
    /\ Ran(m.w)
    /\ last' = MainRec("none", "", tool, m, EmptyDict)

\* python3 -m logger [--log-file f] --max-size n --max-backups m: the
\* logger is made and main starts to read stdin
LoggerStart ==
  /\ logger.pc = "off"
  /\ logger.starts < MaxStarts
  /\ logger' = [_setup_logging([logger EXCEPT !.written = << >>,
                                              !.exit = "", !.cause = "",
                                              !.rotated = FALSE])
                  EXCEPT !.pc = "reading", !.starts = logger.starts + 1]
  /\ UNCHANGED << keyring, git, cfgDir, cfgFile, hub, last, runs >>

\* a line of stdin is logged
LoggerLine ==
  /\ logger.pc = "reading"
  /\ logger.log.size < MaxLines
  /\ Len(logger.written) < MaxLines
  /\ logger' = log(logger, "OUTPUT")
  /\ UNCHANGED << keyring, git, cfgDir, cfgFile, hub, last, runs >>

\* stdin ends: finally cleanup, return 0
LoggerEof ==
  /\ logger.pc = "reading"
  /\ logger' = exited(cleanup(logger), "0", "eof")
  /\ UNCHANGED << keyring, git, cfgDir, cfgFile, hub, last, runs >>

\* reading stdin raises (a line that cannot be decoded): the error is
\* logged, finally cleanup, return 1
LoggerError ==
  /\ logger.pc = "reading"
  /\ logger' = exited(cleanup(log(logger, "ERROR")), "1", "error")
  /\ UNCHANGED << keyring, git, cfgDir, cfgFile, hub, last, runs >>

\* SIGINT or SIGTERM reaches the process while it reads stdin
LoggerSignal ==
  /\ logger.pc = "reading"
  /\ \E signum \in {"SIGINT", "SIGTERM"} :
       logger' = signal_handler(logger, signum)
  /\ UNCHANGED << keyring, git, cfgDir, cfgFile, hub, last, runs >>

Next ==
  \/ ClearConfig
  \/ LoadConfig
  \/ SaveLoaded
  \/ KeyDetails
  \/ ListKeys
  \/ DeleteKey
  \/ CreateKey
  \/ ConfigureGit
  \/ StatusCheck
  \/ ConnectToGithub
  \/ ConnectGithub
  \/ MainCreateKey
  \/ MainListKeys
  \/ MainDeleteKey
  \/ MainGitConfig
  \/ MainStatusCheck
  \/ MainConnectGithub
  \/ MainClearConfig
  \/ MainNoCommand
  \/ MainVerboseHelp
  \/ LoggerStart
  \/ LoggerLine
  \/ LoggerEof
  \/ LoggerError
  \/ LoggerSignal

Spec == Init /\ [][Next]_vars

\* the Local Config Store and the operations that write it
NextStore ==
  \/ ClearConfig
  \/ LoadConfig
  \/ SaveLoaded
  \/ CreateKey

SpecStore == Init /\ [][NextStore]_vars

\* the keyring and the operations that read or change it
NextKeys ==
  \/ CreateKey
  \/ DeleteKey
  \/ KeyDetails
  \/ ListKeys

SpecKeys == InitFresh /\ [][NextKeys]_vars

\* the two GitHub flows
NextHub ==
  \/ ConnectToGithub
  \/ ConnectGithub

SpecHub == InitTwoKeys /\ [][NextHub]_vars

\* the status aggregator over the states the other commands leave
NextStatus ==
  \/ StatusCheck
  \/ ConfigureGit
  \/ DeleteKey

SpecStatus == InitTwoKeys /\ [][NextStatus]_vars

\* the command line program
NextMain ==
  \/ MainCreateKey
  \/ MainListKeys
  \/ MainDeleteKey
  \/ MainGitConfig
  \/ MainStatusCheck
  \/ MainConnectGithub
  \/ MainClearConfig
  \/ MainNoCommand
  \/ MainVerboseHelp

\* the worlds the program is run in
InitMain ==
  InitWith({ << >>, << "K2", "K1" >> },
           { AbsentFile, MalformedFile,
             json_dump([k \in {"github_key_added"} |-> "true"]) },
           { {} }, { NoLogger })

SpecMain == InitMain /\ [][NextMain]_vars

\* the streaming-log utility, started again and again with one command line
NextLogger ==
  \/ LoggerStart
  \/ LoggerLine
  \/ LoggerEof
  \/ LoggerError
  \/ LoggerSignal

InitLogger ==
  InitWith({ << >> }, { AbsentFile }, { {} },
           { IdleLogger(f, m, n) :
               f \in BOOLEAN, m \in 0..MaxBackups, n \in 0..MaxLogSize })

SpecLogger == InitLogger /\ [][NextLogger]_vars

\* the operations that write github_key_added or gpg_key_id, from a first
\* start (delete_gpg_key writes the store through clear_config)
NextAdded ==
  \/ CreateKey
  \/ ConnectGithub
  \/ ClearConfig

SpecAdded == InitFresh /\ [][NextAdded]_vars

(* ------------------------------ properties ----------------------------- *)
\* the Local Config Store as load_config reads it now
LocalConfig == load_config(World, TRUE).ret

Called(c) == \E i \in 1..Len(last.calls) : last.calls[i].call = c

GitCalls == {"git:get", "git:unset", "git:set:user.signingkey",
             "git:set:commit.gpgsign"}

HttpCalls == {"http:GET", "http:POST"}

\* a status flag is false or not in the record
FlagOff(k) == DictGet(last.out, k, "false") = "false"

\* C1: status aggregation short-circuits.  When check_gpg_status finds the
\* key tool not installed, key_configured, git_configured and
\* github_configured are false or absent and it made no Git call, no key
\* export or fingerprint call and no LocalConfig read; when the tool is
\* installed and the keyring holds no secret key, git_configured and
\* github_configured are false or absent and neither the Git probe nor the
\* GitHub probe was made.
C1_StatusShortCircuit ==
  last.op = "check_gpg_status" =>
    /\ last.tool # "ok" =>
         /\ FlagOff("key_configured")
         /\ FlagOff("git_configured")
         /\ FlagOff("github_configured")
         /\ \A c \in GitCalls \cup HttpCalls
                     \cup {"gpg:export", "gpg:fingerprint", "cfg:load"} :
               ~Called(c)
    /\ (last.tool = "ok" /\ keyring = << >>) =>
         /\ FlagOff("git_configured")
         /\ FlagOff("github_configured")
         /\ \A c \in GitCalls \cup HttpCalls
                     \cup {"gpg:export", "gpg:fingerprint"} :
               ~Called(c)

\* the tool is reported not installed while a key exists and Git signs
\* with it
C1_Witness ==
  /\ last.op = "check_gpg_status"
  /\ last.tool = "broken"
  /\ keyring # << >>
  /\ git["user.signingkey"] = keyring[1]

\* C2: a successful create_gpg_key returns the id of the key just created,
\* configure_git was called with that id, and afterwards the Git signing
\* key is that id, commit signing is true and LocalConfig.gpg_key_id is
\* that id, whatever the keyring held before.
C2_CreateReturnsNewKey ==
  (last.op = "create_gpg_key" /\ last.ret \in KeyIds) =>
    /\ last.ret = last.created
    /\ Call("git:set:user.signingkey", last.created) \in Range(last.calls)
    /\ git["user.signingkey"] = last.created
    /\ git["commit.gpgsign"] = "true"
    /\ DictGet(LocalConfig, "gpg_key_id", "") = last.created

ConnectFlows == {"connect_to_github", "connect_github"}

\* C3: when the key-listing request of a GitHub connect flow is answered
\* 403, the flow ends in failure and made no upload request in that run.
C3_NoUploadAfter403 ==
  (last.op \in ConnectFlows /\ last.get = "403") =>
    /\ last.ret = "False"
    /\ ~Called("http:POST")

\* C4: whenever a GitHub connect flow uploaded the public key and the
\* upload was answered 201, LocalConfig has github_key_added = true and a
\* non-empty last_config_update.
C4_UploadPersists ==
  (last.op \in ConnectFlows /\ Called("http:POST") /\ last.post = "201") =>
    /\ DictGet(LocalConfig, "github_key_added", "false") = "true"
    /\ DictGet(LocalConfig, "last_config_update", "") # ""

\* C5: when the yes/no prompt of connect_github times out, the flow returns
\* False without raising, makes no GitHub request and leaves the Local
\* Config Store (and the GitHub account) as they were.
C5_TimeoutSkips ==
  [][ (last'.op = "connect_github" /\ last'.answer = "timeout") =>
        /\ last'.ret = "False"
        /\ last'.exc = ""
        /\ \A i \in 1..Len(last'.calls) : last'.calls[i].call \notin HttpCalls
        /\ cfgFile' = cfgFile
        /\ cfgDir' = cfgDir
        /\ hub' = hub ]_vars

\* the prompt was shown and timed out while the store says the key was added
C5_Witness ==
  /\ last.op = "connect_github"
  /\ last.answer = "timeout"
  /\ Call("prompt", "verify") \in Range(last.calls)
  /\ DictGet(LocalConfig, "github_key_added", "false") = "true"

\* the record clear_config writes back through update_key_config
UnconfiguredRecord ==
  [k \in {"gpg_installed", "key_configured", "git_configured",
          "gpg_key_id", "github_key_added"} |->
     CASE k \in {"gpg_installed", "key_configured"} -> "true"
       [] k = "gpg_key_id" -> ""
       [] OTHER -> "false"]

\* C6 as stated: after clear_config, load_config yields an empty record and
\* the Git signing key is empty.
C6_ClearThenLoadEmpty ==
  (last.op = "clear_config" /\ last.exc = "") =>
    /\ LocalConfig = EmptyDict
    /\ git["user.signingkey"] = ""

\* C6 as amended: after a clear_config that returns, load_config yields the
\* "unconfigured" record written back by update_key_config (gpg_key_id
\* empty, git_configured and github_key_added false, gpg_installed and
\* key_configured true), and the Git signing key is empty.
C6_ClearLeavesUnconfigured ==
  (last.op = "clear_config" /\ last.exc = "") =>
    /\ LocalConfig = UnconfiguredRecord
    /\ git["user.signingkey"] = ""

\* clear_config removed an existing file and returned
C6_Witness ==
  /\ last.op = "clear_config"
  /\ last.exc = ""
  /\ Call("cfg:unlink", "") \in Range(last.calls)
  /\ keyring # << >>

\* C7: round trip of the store.  After save_config(load_config()) has
\* returned, load_config yields the record that was loaded before the save,
\* for an absent, a malformed and a well-formed file, and however often the
\* pair is repeated.
C7_SaveLoadRoundTrip ==
  (last.op = "save_load" /\ last.exc = "") => LocalConfig = last.out

\* a record with a key id went through the round trip
C7_Witness ==
  /\ last.op = "save_load"
  /\ last.exc = ""
  /\ DictGet(last.out, "gpg_key_id", "") \in KeyIds
  /\ DictGet(last.out, "github_key_added", "") = "true"

\* C8: for a key id that is not among the secret keys,
\* get_gpg_key_details returns an empty record and does not raise, also
\* when the listing command exits non-zero.
C8_DetailsEmptyForAbsentKey ==
  (last.op = "get_gpg_key_details" /\ last.present = "false") =>
    /\ last.exc = ""
    /\ last.ret = "dict"
    /\ last.out = EmptyDict

\* details were asked for a key the non-empty keyring does not hold
C8_Witness ==
  /\ last.op = "get_gpg_key_details"
  /\ last.present = "false"
  /\ last.listOk = "true"
  /\ keyring # << >>

\* C9: for a key id not in the system, delete_gpg_key fails with a
\* "fingerprint not found" condition the caller can tell from the failure
\* raised when the key tool's lookup or deletion exits non-zero.
C9_DeleteAbsentKeyDistinctError ==
  (last.op = "delete_gpg_key" /\ last.present = "false") =>
    /\ last.exc # ""
    /\ last.msg = "Could not find fingerprint"
    /\ << last.exc, last.msg >> # << "RuntimeError", "stderr" >>

\* C10: list_gpg_keys returns a sequence with one record per secret key, in
\* the listing order of the key tool, and an empty sequence (not None, not
\* an error) when there is no key.
C10_ListReturnsSequence ==
  (last.op = "list_gpg_keys" /\ last.exc = "") =>
    /\ last.ret = "list"
    /\ Len(last.seq) = Len(keyring)
    /\ \A i \in 1..Len(keyring) : last.seq[i].key_id = keyring[i]

\* C11: check_gpg_status never raises.  Whatever fails (the key tool missing
\* or exiting non-zero, the listings, the git executable, the export, the
\* fingerprint query, the read of LocalConfig), it returns a status record
\* that contains gpg_installed.
C11_StatusNeverRaises ==
  last.op = "check_gpg_status" =>
    /\ last.exc = ""
    /\ last.ret = "dict"
    /\ "gpg_installed" \in DOMAIN last.out

\* the key tool answered, a key exists, and a later probe left the try block
C11_Witness ==
  /\ last.op = "check_gpg_status"
  /\ last.tool = "ok"
  /\ keyring # << >>
  /\ "error" \in DOMAIN last.out

\* C12: in check_gpg_status, when the GitHub sub-check fails (the export or
\* the fingerprint query exits non-zero, or the sub-check raises) the status
\* has github_configured = false.
C12_FailedSubCheckNotConfigured ==
  (last.op = "check_gpg_status"
     /\ last.sub \in {"export", "fingerprint", "raised"}) =>
    DictGet(last.out, "github_configured", "false") = "false"

\* C13: load_config never raises; for an absent file, a malformed file and
\* a file or directory that cannot be read it returns an empty record.
C13_LoadNeverRaises ==
  last.op = "load_config" =>
    /\ last.exc = ""
    /\ last.ret = "dict"
    /\ (~cfgFile.present \/ ~cfgFile.wf \/ last.readOk = "false") =>
         last.out = EmptyDict

\* a malformed file was read
C13_Witness ==
  /\ last.op = "load_config"
  /\ last.readOk = "true"
  /\ cfgFile.present
  /\ ~cfgFile.wf

\* the positions of the calls of one kind in the calls of the last operation
CallsAt(kinds) == { i \in 1..Len(last.calls) : last.calls[i].call \in kinds }

\* C14: delete_gpg_key resolves the fingerprint, deletes the key, clears the
\* Git signing settings and then LocalConfig.  The delete command is only
\* run after the lookup, with the non-empty full fingerprint the lookup gave
\* for the key (never with the key id), and Git settings and LocalConfig
\* are only touched after a delete command that succeeded, Git before
\* LocalConfig.
C14_DeleteOrder ==
  last.op = "delete_gpg_key" =>
    /\ \A i \in CallsAt({"gpg:delete-secret-and-public-key"}) :
         /\ last.calls[i].arg # ""
         /\ last.calls[i].arg \notin ArgKeys
         /\ last.arg \in KeyIds
         /\ last.calls[i].arg = KeyInfo[last.arg].fpr
         /\ \E j \in CallsAt({"gpg:list-keys"}) : j < i
    /\ \A j \in CallsAt({"git:unset", "cfg:unlink", "cfg:save"}) :
         /\ \E i \in CallsAt({"gpg:delete-secret-and-public-key"}) : i < j
         /\ ~InRing(keyring, last.arg)
    /\ \A j \in CallsAt({"cfg:unlink", "cfg:save"}) :
         \E i \in CallsAt({"git:unset"}) :
           i < j /\ last.calls[i].arg = "user.signingkey"

\* a key was deleted while another one stays, and the store was rewritten
C14_Witness ==
  /\ last.op = "delete_gpg_key"
  /\ last.ret = "True"
  /\ last.present = "true"
  /\ keyring # << >>
  /\ CallsAt({"cfg:save"}) # {}

\* C15: configure_git reports failure when either step fails and rolls
\* nothing back.  When setting user.signingkey succeeded and enabling
\* commit.gpgsign failed, it returns False, user.signingkey is the new key
\* id and commit.gpgsign is what it was; when setting user.signingkey
\* failed, it returns False, no command touched commit.gpgsign and the Git
\* settings are what they were.
C15_ConfigureGitNoRollback ==
  [][ last'.op = "configure_git" =>
        /\ (last'.setKey = "true" /\ last'.setSign = "false") =>
             /\ last'.ret = "False"
             /\ git' = [git EXCEPT !["user.signingkey"] = last'.arg]
        /\ last'.setKey = "false" =>
             /\ last'.ret = "False"
             /\ git' = git
             /\ \A i \in 1..Len(last'.calls) :
                  last'.calls[i].call # "git:set:commit.gpgsign"
        /\ (last'.setKey = "true" /\ last'.setSign = "true") =>
             last'.ret = "True" ]_vars

\* the signing key was set and commit signing then failed to be enabled
C15_Witness ==
  /\ last.op = "configure_git"
  /\ last.setKey = "true"
  /\ last.setSign = "false"
  /\ last.ret = "False"
  /\ git["user.signingkey"] = last.arg
  /\ last.arg \in KeyIds
  /\ git["commit.gpgsign"] = ""

Commands == {"create-key", "list-keys", "delete-key", "git-config",
             "status-check", "connect-github", "clear-config"}

\* C16: when the key tool is not installed (gpg --version cannot be run or
\* exits non-zero), main ends with exit code 1 before the selected
\* operation: whichever of the seven commands was selected, the run made no
\* call but the version check and left the keyring, the Git settings, the
\* GitHub account and LocalConfig as they were.
C16_NoToolNoOperation ==
  [][ (last'.op = "main" /\ last'.arg \in Commands /\ last'.tool # "ok") =>
        /\ last'.exit = "1"
        /\ last'.calls = << Call("gpg:version", "") >>
        /\ UNCHANGED << keyring, git, cfgDir, cfgFile, hub >> ]_vars

\* the deletion of a key in the keyring was asked for without the key tool
C16_Witness ==
  /\ last.op = "main"
  /\ last.arg = "delete-key"
  /\ last.tool = "missing"
  /\ keyring # << >>
  /\ last.key = keyring[1]

\* the operation main selected failed
Failed ==
  \/ last.exc # ""
  \/ last.arg = "create-key" /\ last.ret \notin KeyIds
  \/ last.arg \in {"git-config", "connect-github"} /\ last.ret = "False"

\* C17: main exits with 0 only if the selected operation succeeded; a
\* create_gpg_key, configure_git or connect_to_github that reports failure
\* and a delete_gpg_key or clear_config that raises end with exit code 1.
C17_ExitCodeTellsFailure ==
  (last.op = "main" /\ last.arg \in Commands /\ last.tool = "ok"
     /\ last.calls # << Call("gpg:version", "") >> /\ Failed) =>
    last.exit = "1"

\* the operations that write the Local Config Store
Persisting == {"create_gpg_key", "clear_config", "delete_gpg_key",
               "connect_github"}

\* C20: a failed write of the Local Config Store reaches the caller as an
\* error: no operation that persists state returns a value when its
\* save_config call failed.
C20_SaveFailurePropagates ==
  (last.op \in Persisting /\ last.save = "false") => last.exc # ""

\* C18: when SIGINT interrupts the streaming-log utility while it logs
\* stdin, the interruption is logged, the log file is closed and the
\* process exits with code 130.
C18_SigintExits130 ==
  (logger.pc = "off" /\ logger.cause = "SIGINT") =>
    /\ logger.exit = "130"
    /\ "WARNING" \in Range(logger.written)
    /\ logger.handle # "open"

\* the numbered backups of the log that exist
Backups == { i \in BackupSlots : i >= 1 /\ logger.bk[i] # 0 }

\* C19: rotation keeps at most max_backups backups.  After any sequence of
\* start-ups, for any max_backups >= 0, there are never more than
\* max_backups numbered backups, and a rotation moves backup i to i+1 and
\* the log file to backup 1, losing no backup but the oldest one.
C19_RotationKeepsMaxBackups ==
  /\ [](Cardinality(Backups) <= logger.max_backups)
  /\ [][ (logger.pc = "off" /\ logger'.pc = "reading" /\ logger'.rotated) =>
           /\ logger'.bk[1] = logger.log.id
           /\ \A i \in 1..(logger.max_backups - 1) :
                logger'.bk[i + 1] = logger.bk[i] ]_vars

\* C21: get_gpg_key_details(k) is scoped to key k: whatever other secret keys
\* the listing holds, the owner and the subkey fields of the record are
\* those of the uid and ssb lines of k.
C21_DetailsScopedToKey ==
  (last.op = "get_gpg_key_details" /\ last.present = "true"
     /\ last.listOk = "true" /\ last.arg \in KeyIds) =>
    /\ DictGet(last.out, "primary_key", "") = last.arg
    /\ DictGet(last.out, "owner", "") = KeyInfo[last.arg].owner
    /\ DictGet(last.out, "subkey_size", "") = KeyInfo[last.arg].created

\* C22: connect_to_github reports the key as already on GitHub (success
\* without an upload) only if the fingerprint it read for the local key is
\* non-empty and the key is among the keys registered in the account; a key
\* that is not registered is never reported as present.
C22_PresentOnlyIfRegistered ==
  (last.op = "connect_to_github" /\ last.ret = "True"
     /\ ~Called("http:POST")) =>
    /\ last.fpr # ""
    /\ last.arg \in hub

\* C23: a GitHub connect flow uploads only when the key is absent: an upload
\* request is issued only after the listing request was answered 200 (and
\* found no match).
C23_UploadOnlyAfterListing ==
  (last.op \in ConnectFlows /\ Called("http:POST")) => last.get = "200"

\* how often the operation just run made a call of kind c
CallCount(c) == Cardinality(CallsAt({c}))

\* C24: connect_to_github has no retry loop.  A run issues at most one
\* upload request; after an upload answered 201 it makes exactly one more
\* listing request, after the settling delay, and nothing after it; a
\* listing or upload that fails (401, 403, another status, a network error)
\* ends the run with False and no request is repeated.
C24_NoRetry ==
  (last.op = "connect_to_github") =>
    /\ CallCount("http:POST") <= 1
    /\ CallCount("http:GET") <= 2
    /\ (last.post = "201") =>
         /\ CallCount("http:GET") = 2
         /\ CallCount("sleep") = 1
         /\ SubSeq(last.calls, Len(last.calls) - 2, Len(last.calls))
              = << Call("http:POST", "/user/gpg_keys"), Call("sleep", "5"),
                   Call("http:GET", "/user/gpg_keys") >>
    /\ (last.get \in {"401", "403", "neterr"}) =>
         /\ last.ret = "False"
         /\ CallCount("http:GET") = 1
         /\ CallCount("http:POST") = 0
    /\ (last.post \in {"403", "422", "neterr"}) =>
         /\ last.ret = "False"
         /\ CallCount("http:GET") = 1
         /\ CallCount("http:POST") = 1

\* an upload was answered 201 and the listing was asked for again
C24_Witness ==
  /\ last.op = "connect_to_github"
  /\ last.post = "201"
  /\ CallCount("http:GET") = 2

\* C25: after any sequence of create_gpg_key, connect_github and
\* clear_config from a first start, github_key_added is true in LocalConfig
\* only if the key recorded in gpg_key_id is registered in the GitHub
\* account (found there or uploaded).
C25_AddedOnlyForRecordedKey ==
  (DictGet(LocalConfig, "github_key_added", "false") = "true"
     /\ DictGet(LocalConfig, "gpg_key_id", "") \in KeyIds) =>
    DictGet(LocalConfig, "gpg_key_id", "") \in hub

\* C26: for every secret key k in the keyring, not only the first one
\* listed, once configure_git(k) has succeeded (user.signingkey = k and
\* commit.gpgsign = true) a check_gpg_status that reaches its Git check
\* reports git_configured = true.
C26_GitConfiguredForAnyKey ==
  (last.op = "check_gpg_status" /\ last.tool = "ok" /\ last.sub # ""
     /\ InRing(keyring, git["user.signingkey"])
     /\ git["commit.gpgsign"] = "true") =>
    DictGet(last.out, "git_configured", "false") = "true"

SigningSettings == {"user.signingkey", "commit.gpgsign", "tag.gpgsign"}

\* C27: a successful delete_gpg_key changes only the signing settings of the
\* Git configuration; user.email, user.name and every other setting keep
\* their value.
C27_DeleteKeepsIdentity ==
  [][ (last'.op = "delete_gpg_key" /\ last'.ret = "True") =>
        \A s \in GitSettings \ SigningSettings : git'[s] = git[s] ]_vars

\* C28: a delete_gpg_key that fails at the fingerprint lookup (the command
\* exits non-zero or shows no fingerprint) or at the delete command raises
\* an error and leaves the Git configuration and the Local Config Store as
\* they were; when the lookup failed the keyring is unchanged too.
C28_FailedDeleteChangesNothing ==
  [][ (last'.op = "delete_gpg_key"
         /\ (last'.lookup = "false" \/ last'.present = "false"
               \/ last'.deleted = "false")) =>
        /\ last'.exc = "RuntimeError"
        /\ UNCHANGED << git, cfgDir, cfgFile >>
        /\ (last'.deleted = "") => UNCHANGED keyring ]_vars

\* the delete command failed for a key Git signs with, the store in place
C28_Witness ==
  /\ last.op = "delete_gpg_key"
  /\ last.deleted = "false"
  /\ git["user.signingkey"] = last.arg
  /\ cfgFile.present

\* C29: when the generation command exits non-zero, or exits zero but the
\* listing that follows shows no secret key, create_gpg_key returns None,
\* does not invoke configure_git and leaves the Git settings and the Local
\* Config Store as they were.
C29_FailedCreateChangesNothing ==
  [][ (last'.op = "create_gpg_key"
         /\ (last'.gen = "false"
               \/ (last'.listOk = "true" /\ keyring' = << >>))) =>
        /\ last'.ret = "None"
        /\ \A i \in 1..Len(last'.calls) :
             last'.calls[i].call \notin GitCalls \cup {"cfg:load", "cfg:save"}
        /\ UNCHANGED << git, cfgDir, cfgFile >> ]_vars

\* the generation failed while the keyring held a key
C29_Witness ==
  /\ last.op = "create_gpg_key"
  /\ last.gen = "false"
  /\ keyring # << >>

\* the generation exited zero and the listing showed no secret key
C29_NoKeyWitness ==
  /\ last.op = "create_gpg_key"
  /\ last.gen = "true"
  /\ last.listOk = "true"
  /\ keyring = << >>

\* C30: clearing is idempotent.  A clear_config that follows a clear_config
\* that returned, with the file system refusing nothing, returns as well
\* (the unset of a setting that is already unset is not an error) and
\* leaves the Git settings and the Local Config Store, file presence and
\* contents, as the first one left them.
C30_ClearTwice ==
  [][ (last.op = "clear_config" /\ last.exc = ""
         /\ last'.op = "clear_config" /\ last'.fsOk = "true") =>
        /\ last'.exc = ""
        /\ UNCHANGED << git, cfgDir, cfgFile >> ]_vars

\* clear_config ran a second time in a row and returned: it removed the
\* file the first one wrote and wrote the unconfigured record again
C30_Witness ==
  /\ last.op = "clear_config"
  /\ last.again = "true"
  /\ last.exc = ""
  /\ Called("cfg:unlink")
  /\ git["user.signingkey"] = ""
  /\ cfgFile = json_dump(UnconfiguredRecord)

====
